---------------------------- MODULE Spec2Model ----------------------------
(***************************************************************************)
(* RingBuffer<ValueT, AllocatorT> (src/RingBuffer.h) and its indexed       *)
(* iterator TIndexedIteratorBase, as a state machine.                      *)
(*                                                                         *)
(* The buffer object is the record rb with the fields of the class         *)
(* (capacity, head, elementsInside, MemoryBlock) plus mem, the contents of *)
(* the block MemoryBlock points to, one entry per ValueT slot.  size_t     *)
(* arithmetic is modular (SizeMod), so that 0 - 1 is InvalidIndex as in    *)
(* the source.                                                             *)
(***************************************************************************)
EXTENDS Integers, Sequences, FiniteSets, TLC

\* ----------------------------------------------------------------- bounds
\* Largest capacity a constructor or Resize is asked for.
MaxCap == 3
\* Element values pushed by the caller are 1..NumValues.
NumValues == 2
\* A traversal loop is cut after MaxCap + ExtraVisits visits.
ExtraVisits == 2

\* ------------------------------------------------------------ size_t model
\* Width of size_t in the model; size_t(-1) == 2^SizeBits - 1.
SizeBits == 16
SizeMod == 2 ^ SizeBits

\* RingBuffer::InvalidIndex
InvalidIndex == SizeMod - 1

\* size_t subtraction and addition (wrap around)
SubSz(a, b) == (a - b + SizeMod) % SizeMod
AddSz(a, b) == (a + b) % SizeMod

\* ------------------------------------------------------------------ values
Values == 1 .. NumValues
\* Junk: the indeterminate contents of a slot nobody wrote (the bytes of a
\* fresh allocation).  It stands for every bit pattern at once: nothing can
\* rely on a Junk slot being equal to a value of Values.
Junk == 0
\* What PopFront/PopBack return on an empty buffer: a reference to the
\* destroyed temporary ValueT{}.
Dangling == 0 - 1
\* nullptr, as the result of LookAtIndex
NullPtr == 0 - 1

\* sizeof(ValueT) of the instantiations considered
ElemSizes == {1, 4}

\* The states of the pointer MemoryBlock: nullptr, a live allocation, or an
\* indeterminate value (the member has no initializer and the default
\* constructor does not set it).
PtrNull == "null"
PtrValid == "valid"
PtrGarbage == "garbage"

\* EIndexedAccessIteratorPosition
PosBegin == "Begin"
PosEnd == "End"
PosInRange == "InRange"
PosInvalid == "Invalid"

\* ------------------------------------------------- pure index arithmetic
\* All of these read only capacity, head and elementsInside of a buffer b.

\* Mutant: GetTailIndex without the case of a wrapped region
GetTailIndex_NoWrap(b) ==
    IF b.capacity = 0 THEN InvalidIndex
    ELSE IF b.head = InvalidIndex THEN InvalidIndex
    ELSE IF b.elementsInside = 1 THEN b.head
    ELSE SubSz(b.head, SubSz(b.elementsInside, 1))

\* RingBuffer::GetTailIndex
GetTailIndex(b) ==
    IF b.capacity = 0 THEN InvalidIndex
    ELSE IF b.head = InvalidIndex THEN InvalidIndex
    ELSE IF b.elementsInside = 1 THEN b.head
    ELSE IF b.head < SubSz(b.elementsInside, 1)
         THEN SubSz(b.capacity, SubSz(SubSz(b.elementsInside, b.head), 1))
         ELSE SubSz(b.head, SubSz(b.elementsInside, 1))

\* RingBuffer::GetHeadIndex
GetHeadIndex(b) == b.head

\* RingBuffer::GetBeginIndex / GetEndIndex
GetBeginIndex(b) == GetTailIndex(b)
GetEndIndex(b) == GetHeadIndex(b)

\* RingBuffer::IsIndexValid
IsIndexValid(b, Index) ==
    ~ ( \/ Index >= b.capacity
        \/ b.elementsInside = 0
        \/ Index = InvalidIndex
        \/ (Index < GetTailIndex(b) /\ Index > GetHeadIndex(b))
        \/ (/\ Index > GetTailIndex(b)
            /\ Index > GetHeadIndex(b)
            /\ GetTailIndex(b) <= GetHeadIndex(b)) )

\* RingBuffer::GetNextHeadIndex
GetNextHeadIndex(b) ==
    IF b.capacity = 0 \/ b.capacity = b.elementsInside THEN InvalidIndex
    ELSE IF b.head = SubSz(b.capacity, 1) THEN 0 ELSE AddSz(b.head, 1)

\* RingBuffer::GetNextTailIndex
GetNextTailIndex(b) ==
    IF b.capacity = 0 \/ b.capacity = b.elementsInside THEN InvalidIndex
    ELSE IF GetTailIndex(b) = 0 THEN SubSz(b.capacity, 1)
         ELSE SubSz(GetTailIndex(b), 1)

\* RingBuffer::PointToValueAtIndex: TRUE when it returns a non-null pointer
PointsToSlot(b, index) == ~ (index >= b.capacity)

\* The value in slot index of the block (slots are 0-based, mem is 1-based)
Slot(b, index) == b.mem[index + 1]

\* *PointToValueAtIndex(index) = value
WriteSlot(b, index, value) == [b EXCEPT !.mem[index + 1] = value]


\* ------------------------------------------------------ the operations
\* Each operation is a function of the buffer b and its inputs; it yields
\* the buffer afterwards (b), the value returned (ret) and whether the process
\* is still running (alive).  The parameter ub selects the outcome where the
\* source has undefined behaviour: "crash" (the process dies inside the call)
\* or "continue" (the stray access has no effect on the buffer).
UBOutcomes == {"crash", "continue"}

Returned(b, ret) == [b |-> b, ret |-> ret, alive |-> TRUE]
Crashed(b) == [b |-> b, ret |-> NullPtr, alive |-> FALSE]

\* The test the four push/emplace functions start with:
\* MemoryBlock && capacity > elementsInside
HasRoom(b) == b.MemoryBlock # PtrNull /\ b.capacity > b.elementsInside

\* The slot PushBack / EmplaceBack choose
IndexForBack(b) ==
    IF ~ (GetTailIndex(b) = InvalidIndex) THEN GetNextTailIndex(b) ELSE 0

\* The slot PushFront / EmplaceFront choose
IndexForFront(b) ==
    IF ~ (b.head = InvalidIndex) THEN GetNextHeadIndex(b) ELSE 0

\* RingBuffer::PushBack
PushBack(b, value, ub) ==
    IF HasRoom(b)
    THEN LET IndexForPushedElement == IndexForBack(b)
             written == IF PointsToSlot(b, IndexForPushedElement)
                        THEN WriteSlot(b, IndexForPushedElement, value)
                        ELSE b
             after == [written EXCEPT
                         !.elementsInside = AddSz(b.elementsInside, 1),
                         !.head = IF b.head = InvalidIndex
                                  THEN IndexForPushedElement ELSE b.head]
         IN  IF ~ PointsToSlot(b, IndexForPushedElement) /\ ub = "crash"
             THEN Crashed(b)
             ELSE Returned(after, IndexForPushedElement)
    ELSE Returned(b, InvalidIndex)

\* RingBuffer::EmplaceBack (std::swap of the slot with the caller's value)
EmplaceBack(b, value, ub) ==
    IF HasRoom(b)
    THEN LET IndexForEmplacedElement == IndexForBack(b)
             written == IF PointsToSlot(b, IndexForEmplacedElement)
                        THEN WriteSlot(b, IndexForEmplacedElement, value)
                        ELSE b
             after == [written EXCEPT
                         !.elementsInside = AddSz(b.elementsInside, 1),
                         !.head = IF b.head = InvalidIndex
                                  THEN IndexForEmplacedElement ELSE b.head]
         IN  IF ~ PointsToSlot(b, IndexForEmplacedElement) /\ ub = "crash"
             THEN Crashed(b)
             ELSE Returned(after, IndexForEmplacedElement)
    ELSE Returned(b, InvalidIndex)

\* RingBuffer::PushFront
PushFront(b, value, ub) ==
    IF HasRoom(b)
    THEN LET IndexForPushedElement == IndexForFront(b)
             written == IF PointsToSlot(b, IndexForPushedElement)
                        THEN WriteSlot(b, IndexForPushedElement, value)
                        ELSE b
             after == [written EXCEPT
                         !.head = IndexForPushedElement,
                         !.elementsInside = AddSz(b.elementsInside, 1)]
         IN  IF ~ PointsToSlot(b, IndexForPushedElement) /\ ub = "crash"
             THEN Crashed(b)
             ELSE Returned(after, IndexForPushedElement)
    ELSE Returned(b, InvalidIndex)

\* RingBuffer::EmplaceFront
EmplaceFront(b, value, ub) ==
    IF HasRoom(b)
    THEN LET IndexForEmplacedElement == IndexForFront(b)
             written == IF PointsToSlot(b, IndexForEmplacedElement)
                        THEN WriteSlot(b, IndexForEmplacedElement, value)
                        ELSE b
             after == [written EXCEPT
                         !.head = IndexForEmplacedElement,
                         !.elementsInside = AddSz(b.elementsInside, 1)]
         IN  IF ~ PointsToSlot(b, IndexForEmplacedElement) /\ ub = "crash"
             THEN Crashed(b)
             ELSE Returned(after, IndexForEmplacedElement)
    ELSE Returned(b, InvalidIndex)

\* Mutant: PopFront without the special case for head == 0
PopFrontHead_NoWrap(b) == SubSz(b.head, 1 % b.capacity)

\* The step PopFront takes from head: head - 1 % capacity parses as
\* head - (1 % capacity)
PopFrontHead(b) ==
    IF b.head = 0 THEN SubSz(b.capacity, 1)
    ELSE SubSz(b.head, 1 % b.capacity)

\* RingBuffer::PopFront.  The value returned is the slot's when Result is
\* non-null, else the reference to the temporary ValueT{}.
PopFront(b) ==
    IF b.head # InvalidIndex
    THEN LET Result == IF PointsToSlot(b, b.head)
                       THEN Slot(b, b.head) ELSE Dangling
             after == IF b.elementsInside > 1
                      THEN [b EXCEPT
                              !.elementsInside = SubSz(b.elementsInside, 1),
                              !.head = PopFrontHead(b)]
                      ELSE [b EXCEPT !.head = InvalidIndex,
                                     !.elementsInside = 0]
         IN  Returned(after, Result)
    ELSE Returned(b, Dangling)

\* RingBuffer::PopBack
PopBack(b) ==
    IF GetTailIndex(b) # InvalidIndex
    THEN LET Result == IF PointsToSlot(b, GetTailIndex(b))
                       THEN Slot(b, GetTailIndex(b)) ELSE Dangling
             after == IF b.elementsInside > 1
                      THEN [b EXCEPT
                              !.elementsInside = SubSz(b.elementsInside, 1)]
                      ELSE [b EXCEPT !.head = InvalidIndex,
                                     !.elementsInside = 0]
         IN  Returned(after, Result)
    ELSE Returned(b, Dangling)

\* Mutant: Clear that resets the count only
Clear_KeepsHead(b) == [b EXCEPT !.elementsInside = 0]

\* RingBuffer::Clear
Clear(b) == [b EXCEPT !.head = InvalidIndex, !.elementsInside = 0]

\* RingBuffer::LookAtIndex: the slot pointed to, or NullPtr
LookAtIndex(b, index) ==
    IF \/ index >= b.capacity
       \/ b.elementsInside = 0
       \/ index = InvalidIndex
       \/ (index < GetTailIndex(b) /\ index > GetHeadIndex(b))
       \/ (/\ index > GetTailIndex(b)
           /\ index > GetHeadIndex(b)
           /\ GetTailIndex(b) <= GetHeadIndex(b))
    THEN NullPtr
    ELSE index

\* ------------------------------------------------------------------ Resize
\* AllocatorT::Allocate(n * sizeof(ValueT)) when it succeeds: a block of n
\* slots whose contents are indeterminate.
Allocate(n) == IF n \in 1 .. MaxCap THEN [p \in 1 .. n |-> Junk] ELSE << >>

\* detail::CopyMemory(src, dst, size): memcpy of size bytes.  Slot p (1-based)
\* of dst takes the source's value when all its sz bytes lie within the first
\* size bytes and the source has that slot; a slot copied in part, or from
\* beyond the source block, keeps indeterminate contents.
CopyMemory(src, dst, size, sz) ==
    [p \in 1 .. Len(dst) |->
        IF p * sz <= size /\ p <= Len(src) THEN src[p] ELSE dst[p]]

\* memcpy wrote past the destination block or read past the source block
CopyOutOfBounds(src, dst, size, sz) ==
    size > Len(dst) * sz \/ size > Len(src) * sz

\* The two copy loops of Resize for a wrapped region (TailIndex > head):
\* slots TailIndex .. capacity-1 first, then slots 0 .. head.
CopyWrapped(b, TailIndex, block) ==
    LET tailPart == b.capacity - TailIndex
    IN  [p \in 1 .. Len(block) |->
            IF p - 1 < tailPart THEN b.mem[TailIndex + p]
            ELSE IF p - 1 - tailPart <= b.head THEN b.mem[p - tailPart]
            ELSE block[p]]

\* Mutant: Resize that copies a wrapped region and forgets to move head
LinearizedHead_Kept(b) == b.head

\* The head Resize sets after copying a wrapped region: elementsInside - 1
LinearizedHead(b) == SubSz(b.elementsInside, 1)

\* The number of bytes Resize passes to CopyMemory: head + 1 * sizeof(ValueT)
ResizeCopyBytes(b, sz) == b.head + 1 * sz

\* Mutant: Resize without the test NewCapacity >= elementsInside
ResizeAccepts_NoSizeCheck(b, NewCapacity) ==
    NewCapacity > 0 /\ NewCapacity # InvalidIndex

\* Mutant: Resize without the test NewCapacity > 0
ResizeAccepts_AllowsZero(b, NewCapacity) ==
    NewCapacity # InvalidIndex /\ NewCapacity >= b.elementsInside

\* The capacities Resize accepts
ResizeAccepts(b, NewCapacity) ==
    /\ NewCapacity > 0
    /\ NewCapacity # InvalidIndex
    /\ NewCapacity >= b.elementsInside

\* What Allocate returned: a block or nullptr
AllocOutcome(allocated) == IF allocated THEN "block" ELSE "null"

\* The calls of Allocate a call of Resize makes, with what each returned
ResizeAllocations(b, NewCapacity, allocated) ==
    IF ResizeAccepts(b, NewCapacity) THEN <<AllocOutcome(allocated)>>
    ELSE << >>

\* RingBuffer::Resize.  allocated: whether Allocate returns a block (else
\* nullptr); sz: sizeof(ValueT).
Resize(b, NewCapacity, allocated, sz, ub) ==
    LET block == Allocate(NewCapacity) IN
    IF ResizeAccepts(b, NewCapacity)
    THEN IF allocated
         THEN IF b.MemoryBlock # PtrNull
              THEN IF b.elementsInside > 0 /\ b.head # InvalidIndex
                   THEN LET TailIndex == IF GetTailIndex(b) # InvalidIndex
                                         THEN GetTailIndex(b) ELSE 0
                        IN  IF TailIndex > b.head
                            THEN Returned(
                                   [b EXCEPT
                                      !.mem = CopyWrapped(b, TailIndex, block),
                                      !.head = LinearizedHead(b),
                                      !.capacity = NewCapacity,
                                      !.MemoryBlock = PtrValid], 1)
                            ELSE IF /\ CopyOutOfBounds(b.mem, block,
                                            ResizeCopyBytes(b, sz), sz)
                                    /\ ub = "crash"
                                 THEN Crashed(b)
                                 ELSE Returned(
                                        [b EXCEPT
                                           !.mem = CopyMemory(b.mem, block,
                                               ResizeCopyBytes(b, sz), sz),
                                           !.capacity = NewCapacity,
                                           !.MemoryBlock = PtrValid], 1)
                   ELSE \* nothing to copy; Deallocate of an indeterminate
                        \* pointer is undefined
                        IF b.MemoryBlock = PtrGarbage /\ ub = "crash"
                        THEN Crashed(b)
                        ELSE Returned([b EXCEPT !.mem = block,
                                                !.capacity = NewCapacity,
                                                !.MemoryBlock = PtrValid], 1)
              ELSE Returned([b EXCEPT !.mem = block,
                                      !.capacity = NewCapacity,
                                      !.MemoryBlock = PtrValid], 1)
         ELSE Returned(b, 0)
    ELSE Returned(b, 0)

\* ------------------------------------------------------------ constructors
\* The members' default initializers: capacity = 0, head = InvalidIndex(),
\* elementsInside = 0; MemoryBlock has none.
Members(ptr) ==
    [capacity |-> 0, head |-> InvalidIndex, elementsInside |-> 0,
     MemoryBlock |-> ptr, mem |-> << >>]

\* RingBuffer::RingBuffer(): MemoryBlock is left indeterminate
DefaultConstructed == {Members(PtrNull), Members(PtrGarbage)}

\* The calls of Allocate RingBuffer(size_t capacity) makes
CtorAllocations(cap, allocated) ==
    IF cap > 0 /\ cap # InvalidIndex THEN <<AllocOutcome(allocated)>>
    ELSE << >>

\* Mutant: a constructor that records the capacity before testing the block
CapacityConstructed_SetsCapacity(cap, allocated) ==
    IF cap > 0 /\ cap # InvalidIndex
    THEN IF allocated
         THEN {[Members(PtrValid) EXCEPT !.capacity = cap,
                                         !.mem = Allocate(cap)]}
         ELSE {[Members(PtrNull) EXCEPT !.capacity = cap]}
    ELSE DefaultConstructed

\* RingBuffer::RingBuffer(size_t capacity)
CapacityConstructed(cap, allocated) ==
    IF cap > 0 /\ cap # InvalidIndex
    THEN IF allocated
         THEN {[Members(PtrValid) EXCEPT !.capacity = cap,
                                         !.mem = Allocate(cap)]}
         ELSE {Members(PtrNull)}
    ELSE DefaultConstructed

\* --------------------------------------------------------------- iterator
\* TIndexedIteratorBase: the fields Index and Position (Container is rb).
Iter(index, pos) == [Index |-> index, Position |-> pos]

\* RingBuffer::end
end(b) == Iter(InvalidIndex, PosEnd)

\* RingBuffer::begin
begin(b) ==
    IF b.elementsInside # 0 THEN Iter(GetBeginIndex(b), PosBegin) ELSE end(b)

\* RingBuffer::GetNextIndexIter(index)
GetNextIndexIter(b, index) ==
    IF index = InvalidIndex THEN InvalidIndex
    ELSE LET next == IF GetTailIndex(b) > GetHeadIndex(b)
                     THEN IF index = SubSz(b.capacity, 1) THEN 0
                          ELSE AddSz(index, 1)
                     ELSE AddSz(index, 1)
         IN  IF ~ IsIndexValid(b, next) THEN InvalidIndex ELSE next

\* RingBuffer::GetPreviousIndexIter(index)
GetPreviousIndexIter(b, index) ==
    IF index = InvalidIndex THEN InvalidIndex
    ELSE LET prev == IF GetTailIndex(b) > GetHeadIndex(b)
                     THEN IF index = 0 THEN SubSz(b.capacity, 1)
                          ELSE SubSz(index, 1)
                     ELSE SubSz(index, 1)
         IN  IF ~ IsIndexValid(b, prev) THEN InvalidIndex ELSE prev

\* Mutant: operator++ with a break at the end of case Begin
IncIter_BeginBreaks(b, i) ==
    LET sw == CASE i.Position = PosBegin -> Iter(i.Index, PosInRange)
                [] i.Position = PosInRange ->
                     Iter(GetNextIndexIter(b, i.Index), PosInRange)
                [] i.Position = PosEnd -> Iter(InvalidIndex, PosInvalid)
                [] OTHER -> i
    IN  IF sw.Index = InvalidIndex THEN Iter(sw.Index, PosEnd) ELSE sw

\* TIndexedIteratorBase::operator++ : the switch (case Begin falls through
\* into case InRange), then the test of Index after it.
IncIter(b, i) ==
    LET sw == CASE i.Position = PosBegin ->
                     Iter(GetNextIndexIter(b, i.Index), PosInRange)
                [] i.Position = PosInRange ->
                     Iter(GetNextIndexIter(b, i.Index), PosInRange)
                [] i.Position = PosEnd -> Iter(InvalidIndex, PosInvalid)
                [] OTHER -> i
    IN  IF sw.Index = InvalidIndex THEN Iter(sw.Index, PosEnd) ELSE sw

\* TIndexedIteratorBase::operator--
DecIter(b, i) ==
    LET sw == CASE i.Position = PosBegin -> Iter(InvalidIndex, PosInvalid)
                [] i.Position = PosEnd -> Iter(GetEndIndex(b), PosInRange)
                [] i.Position = PosInRange ->
                     Iter(GetPreviousIndexIter(b, i.Index), PosInRange)
                [] OTHER -> i
    IN  IF sw.Index = InvalidIndex THEN Iter(sw.Index, PosBegin) ELSE sw

\* RingBuffer::GetNextIndexIter(index, offset), for offset >= 1 (operator+=
\* never passes 0).  moved is index as the branches leave it, or the invalid
\* index where they return it.
GetNextIndexIterOffset(b, index, offset) ==
    IF index = InvalidIndex THEN InvalidIndex
    ELSE LET last == SubSz(b.capacity, 1)
             TailBackOffset == SubSz(last, index)
             BackOffset == SubSz(offset, TailBackOffset)
             moved ==
                 IF GetTailIndex(b) > GetHeadIndex(b)
                 THEN IF index = last
                      THEN IF SubSz(offset, 1) > GetHeadIndex(b)
                           THEN InvalidIndex
                           ELSE SubSz(offset, 1)
                      ELSE IF index < last
                           THEN IF offset > TailBackOffset
                                THEN IF SubSz(BackOffset, 1) > GetHeadIndex(b)
                                     THEN InvalidIndex
                                     ELSE SubSz(BackOffset, 1)
                                ELSE AddSz(index, offset)
                           ELSE IF offset > GetHeadIndex(b)
                                THEN InvalidIndex
                                ELSE AddSz(index, offset)
                 ELSE IF AddSz(GetTailIndex(b), offset) > GetHeadIndex(b)
                      THEN InvalidIndex
                      ELSE AddSz(index, offset)
         IN  IF moved = InvalidIndex \/ ~ IsIndexValid(b, moved)
             THEN InvalidIndex
             ELSE moved

\* TIndexedIteratorBase::operator+=
AddIter(b, i, Offset) ==
    IF Offset = 0 THEN i
    ELSE LET sw == CASE i.Position = PosBegin ->
                          Iter(GetNextIndexIterOffset(b, GetBeginIndex(b),
                                                      Offset), PosInRange)
                     [] i.Position = PosInRange ->
                          Iter(GetNextIndexIterOffset(b, i.Index, Offset),
                               PosInRange)
                     [] i.Position = PosEnd -> Iter(InvalidIndex, PosInvalid)
                     [] OTHER -> i
         IN  IF sw.Index = InvalidIndex THEN Iter(sw.Index, PosEnd) ELSE sw

\* RingBuffer::PeekFront
PeekFront(b) ==
    IF b.head # InvalidIndex THEN Iter(b.head, PosInRange) ELSE end(b)

\* Mutant: PeekBack looking at head instead of the tail
PeekBack_AtHead(b) ==
    IF b.head # InvalidIndex THEN Iter(b.head, PosInRange) ELSE end(b)

\* RingBuffer::PeekBack
PeekBack(b) ==
    IF GetTailIndex(b) # InvalidIndex
    THEN Iter(GetTailIndex(b), PosInRange) ELSE end(b)

\* ------------------------------------------------------- copy constructor
\* The outcome of a constructor: the object built (b), whether the
\* constructor returned, and whether the process goes on after it.  A
\* constructor does not return when the process dies in it or when its loop
\* never ends.
Built(b) == [b |-> b, returned |-> TRUE, alive |-> TRUE]
Unfinished(b) == [b |-> b, returned |-> FALSE, alive |-> FALSE]

\* The loop of the copy constructor is
\*   for (it = Other.begin(); it != Other.end(); ++it) PushFront(*it);
\* LoopTrail is the walk of its iterator: the slots it stands at, in order,
\* and whether it reaches end().  Before end() the iterator is at Begin or
\* InRange at a slot of the block, so a walk of more than capacity + 1
\* steps has been in one state twice and never ends.
RECURSIVE LoopTrail(_, _, _)
LoopTrail(Other, i, visits) ==
    IF i = end(Other) THEN [slots |-> << >>, ends |-> TRUE]
    ELSE IF visits = 0 THEN [slots |-> << >>, ends |-> FALSE]
    ELSE CHOOSE trail \in
            {[rest EXCEPT !.slots = <<i.Index>> \o @] :
                rest \in {LoopTrail(Other, IncIter(Other, i), visits - 1)}} :
            TRUE

\* Steps after which the walk over Other is known not to end
CopyVisits(Other) == Other.capacity + 1

\* The body of the loop, for the slots of trail from the k-th on
RECURSIVE CopyLoop(_, _, _, _, _)
CopyLoop(Other, b, trail, k, ub) ==
    IF k > Len(trail.slots)
    THEN IF trail.ends THEN Built(b) ELSE Unfinished(b)
    ELSE IF ~ PointsToSlot(Other, trail.slots[k]) THEN Unfinished(b)
    ELSE CHOOSE outcome \in
            {IF ~ r.alive THEN Unfinished(r.b)
             ELSE CopyLoop(Other, r.b, trail, k + 1, ub) :
                 r \in {PushFront(b, Slot(Other, trail.slots[k]), ub)}} : TRUE

\* RingBuffer::RingBuffer(const RingBuffer& Other).  ptr: the indeterminate
\* value of the new object's MemoryBlock, which has no initializer.  trail:
\* the walk of the loop's iterator over Other.
CopyConstructed(Other, trail, ptr, allocated, sz, ub) ==
    CHOOSE outcome \in
        {IF ~ r.alive THEN Unfinished(r.b)
         ELSE IF Other.elementsInside > 0
              THEN CopyLoop(Other, r.b, trail, 1, ub)
              ELSE Built(r.b) :
             r \in {Resize(Members(ptr), Other.capacity, allocated, sz, ub)}} :
        TRUE

\* RingBuffer::operator=(const RingBuffer& Other) applied to the object a:
\* Resize(Other.capacity), then the same loop.  trail: the walk of the loop's
\* iterator over Other.
Assigned(a, Other, trail, allocated, sz, ub) ==
    CHOOSE outcome \in
        {IF ~ r.alive THEN Unfinished(r.b)
         ELSE IF Other.elementsInside > 0
              THEN CopyLoop(Other, r.b, trail, 1, ub)
              ELSE Built(r.b) :
             r \in {Resize(a, Other.capacity, allocated, sz, ub)}} :
        TRUE

\* ------------------------------------------------------------------- state
VARIABLES
    rb,            \* the RingBuffer object
    sizeofValueT,  \* sizeof(ValueT) of this instantiation
    alive,         \* FALSE once undefined behaviour has ended the process
                   \* or a call has run into a loop that never ends
    op,            \* the last call made
    arg,           \* its argument (a value, a capacity or an index)
    ret,           \* what it returned (an index, a value, 1/0 for a bool)
    it,            \* the iterator in use, or the one a Peek returned
    visited,       \* the indices a traversal loop has visited so far
    allocLog,      \* what each Allocate call of the last call returned
    copy,          \* the object the copy constructor built from rb last
    other          \* the object rb was last assigned from

vars ==
    <<rb, sizeofValueT, alive, op, arg, ret, it, visited, allocLog, copy,
      other>>

\* no iterator is held
NoIter == Iter(InvalidIndex, "None")

\* no copy of rb is held
NoCopy == [Members(PtrNull) EXCEPT !.MemoryBlock = "None"]

\* Arguments tried for a capacity or an index
SizeArgs == (0 .. MaxCap) \cup {InvalidIndex}

\* Indices stay representable: a push through a null slot pointer that does
\* not end the process can move head past the capacity without limit.
InBounds(b) == b.head = InvalidIndex \/ b.head <= MaxCap

Init ==
    /\ sizeofValueT \in ElemSizes
    /\ \/ /\ rb \in DefaultConstructed
          /\ op = "RingBuffer()"
          /\ arg = 0
          /\ allocLog = << >>
       \/ \E cap \in SizeArgs, allocated \in BOOLEAN :
             /\ rb \in CapacityConstructed(cap, allocated)
             /\ op = "RingBuffer(size_t)"
             /\ arg = cap
             /\ allocLog = CtorAllocations(cap, allocated)
    /\ alive = TRUE
    /\ ret = 0
    /\ it = NoIter
    /\ visited = << >>
    /\ copy = NoCopy
    /\ other = NoCopy

\* A call of a mutating member function with outcome r, whose calls of
\* Allocate returned log
CallLogged(name, a, r, log) ==
    /\ alive
    /\ InBounds(r.b)
    /\ rb' = r.b
    /\ alive' = r.alive
    /\ op' = name
    /\ arg' = a
    /\ ret' = r.ret
    /\ it' = NoIter
    /\ visited' = << >>
    /\ allocLog' = log
    /\ copy' = NoCopy
    /\ other' = NoCopy
    /\ UNCHANGED sizeofValueT

\* A call of a mutating member function that does not allocate
Call(name, a, r) == CallLogged(name, a, r, << >>)

CallPushBack ==
    \E v \in Values, ub \in UBOutcomes :
        Call("PushBack", v, PushBack(rb, v, ub))

CallEmplaceBack ==
    \E v \in Values, ub \in UBOutcomes :
        Call("EmplaceBack", v, EmplaceBack(rb, v, ub))

CallPushFront ==
    \E v \in Values, ub \in UBOutcomes :
        Call("PushFront", v, PushFront(rb, v, ub))

CallEmplaceFront ==
    \E v \in Values, ub \in UBOutcomes :
        Call("EmplaceFront", v, EmplaceFront(rb, v, ub))

CallPopFront == Call("PopFront", 0, PopFront(rb))

CallPopBack == Call("PopBack", 0, PopBack(rb))

CallClear == Call("Clear", 0, Returned(Clear(rb), 0))

CallResize ==
    \E NewCapacity \in SizeArgs, allocated \in BOOLEAN, ub \in UBOutcomes :
        CallLogged("Resize", NewCapacity,
                   Resize(rb, NewCapacity, allocated, sizeofValueT, ub),
                   ResizeAllocations(rb, NewCapacity, allocated))

\* A call of a const member function: the buffer is not touched
Observe(name, a, r, i) ==
    /\ alive
    /\ op' = name
    /\ arg' = a
    /\ ret' = r
    /\ it' = i
    /\ visited' = << >>
    /\ allocLog' = << >>
    /\ copy' = NoCopy
    /\ other' = NoCopy
    /\ UNCHANGED <<rb, sizeofValueT, alive>>

CallLookAtIndex ==
    \E index \in SizeArgs :
        Observe("LookAtIndex", index, LookAtIndex(rb, index), NoIter)

CallPeekFront == Observe("PeekFront", 0, 0, PeekFront(rb))

CallPeekBack == Observe("PeekBack", 0, 0, PeekBack(rb))

\* for (it = begin(); it != end(); ++it) visit(it.Index)
\* (range-for, the destructor and the copy constructor loop this way)
LoopBound(b) == b.capacity + ExtraVisits

ForwardBegin == Observe("begin", 0, 0, begin(rb))

ForwardStep ==
    /\ alive
    /\ op \in {"begin", "++"}
    /\ it # end(rb)
    /\ Len(visited) < LoopBound(rb)
    /\ visited' = Append(visited, it.Index)
    /\ it' = IncIter(rb, it)
    /\ op' = "++"
    /\ arg' = 0
    /\ ret' = 0
    /\ allocLog' = << >>
    /\ copy' = NoCopy
    /\ other' = NoCopy
    /\ UNCHANGED <<rb, sizeofValueT, alive>>

\* it = end(); while (--it is not at Begin) visit(it.Index)
BackwardBegin == Observe("end", 0, 0, end(rb))

BackwardStep ==
    /\ alive
    /\ op \in {"end", "--"}
    /\ it.Position \in {PosEnd, PosInRange}
    /\ Len(visited) < LoopBound(rb)
    /\ it' = DecIter(rb, it)
    /\ visited' = IF it'.Position = PosInRange
                  THEN Append(visited, it'.Index) ELSE visited
    /\ op' = "--"
    /\ arg' = 0
    /\ ret' = 0
    /\ allocLog' = << >>
    /\ copy' = NoCopy
    /\ other' = NoCopy
    /\ UNCHANGED <<rb, sizeofValueT, alive>>

\* ++it and --it on the iterator held, wherever it stands
Step(name, i) ==
    /\ alive
    /\ it # NoIter
    /\ it' = i
    /\ op' = name
    /\ arg' = 0
    /\ ret' = 0
    /\ visited' = << >>
    /\ allocLog' = << >>
    /\ copy' = NoCopy
    /\ other' = NoCopy
    /\ UNCHANGED <<rb, sizeofValueT, alive>>

CallIncrement == Step("operator++", IncIter(rb, it))

CallDecrement == Step("operator--", DecIter(rb, it))

\* Offsets tried for it += Offset
Offsets == 0 .. MaxCap

\* it += Offset on the iterator held
CallAdvance ==
    /\ alive
    /\ it # NoIter
    /\ \E Offset \in Offsets :
          /\ it' = AddIter(rb, it, Offset)
          /\ arg' = Offset
    /\ op' = "operator+="
    /\ ret' = 0
    /\ visited' = << >>
    /\ allocLog' = << >>
    /\ copy' = NoCopy
    /\ other' = NoCopy
    /\ UNCHANGED <<rb, sizeofValueT, alive>>

\* RingBuffer copy(rb);  ret is 1 when the constructor returned
CallCopy ==
    /\ alive
    /\ \E trail \in {LoopTrail(rb, begin(rb), CopyVisits(rb))},
          ptr \in {PtrNull, PtrGarbage}, allocated \in BOOLEAN :
          \* undefined behaviour is met only with a non-null garbage pointer
          \E ub \in IF ptr = PtrGarbage THEN UBOutcomes ELSE {"continue"} :
          \E r \in {CopyConstructed(rb, trail, ptr, allocated,
                                     sizeofValueT, ub)} :
              /\ copy' = r.b
              /\ alive' = r.alive
              /\ ret' = IF r.returned THEN 1 ELSE 0
              /\ allocLog' = ResizeAllocations(Members(ptr), rb.capacity,
                                               allocated)
    /\ op' = "RingBuffer(const RingBuffer&)"
    /\ arg' = 0
    /\ it' = NoIter
    /\ visited' = << >>
    /\ other' = NoCopy
    /\ UNCHANGED <<rb, sizeofValueT>>

\* The objects tried on the right of an assignment: RingBuffer(1), empty or
\* after PushFront(v)
OtherEmpty == CHOOSE b \in CapacityConstructed(1, TRUE) : TRUE

Others ==
    {OtherEmpty} \cup {PushFront(OtherEmpty, v, "continue").b : v \in Values}

\* rb = Other;  ret is 1 when the operator returned
CallAssign ==
    /\ alive
    /\ \E Other \in Others, allocated \in BOOLEAN, ub \in UBOutcomes :
          \E r \in {Assigned(rb, Other,
                             LoopTrail(Other, begin(Other), CopyVisits(Other)),
                             allocated, sizeofValueT, ub)} :
              /\ InBounds(r.b)
              /\ rb' = r.b
              /\ alive' = r.alive
              /\ ret' = IF r.returned THEN 1 ELSE 0
              /\ allocLog' = ResizeAllocations(rb, Other.capacity, allocated)
              /\ other' = Other
    /\ op' = "operator="
    /\ arg' = 0
    /\ it' = NoIter
    /\ visited' = << >>
    /\ copy' = NoCopy
    /\ UNCHANGED sizeofValueT

Next ==
    \/ CallPushBack
    \/ CallEmplaceBack
    \/ CallPushFront
    \/ CallEmplaceFront
    \/ CallPopFront
    \/ CallPopBack
    \/ CallClear
    \/ CallResize
    \/ CallLookAtIndex
    \/ CallPeekFront
    \/ CallPeekBack
    \/ ForwardBegin
    \/ ForwardStep
    \/ BackwardBegin
    \/ BackwardStep
    \/ CallIncrement
    \/ CallDecrement
    \/ CallCopy

Spec == Init /\ [][Next]_vars

\* Spec with the offset advance of a held iterator and the assignment from a
\* second object
NextWhole ==
    \/ Next
    \/ CallAdvance
    \/ CallAssign

SpecWhole == Init /\ [][NextWhole]_vars

\* A buffer of fixed capacity N >= 1 that starts empty, under PushBack,
\* PushFront, PopFront and PopBack only (and the calls that do not change it).
InitFixed ==
    /\ sizeofValueT \in ElemSizes
    /\ \E cap \in 1 .. MaxCap :
          /\ rb \in CapacityConstructed(cap, TRUE)
          /\ arg = cap
          /\ allocLog = CtorAllocations(cap, TRUE)
    /\ alive = TRUE
    /\ op = "RingBuffer(size_t)"
    /\ ret = 0
    /\ it = NoIter
    /\ visited = << >>
    /\ copy = NoCopy
    /\ other = NoCopy

NextFixed ==
    \/ CallPushBack
    \/ CallPushFront
    \/ CallPopFront
    \/ CallPopBack
    \/ CallLookAtIndex
    \/ CallPeekFront
    \/ CallPeekBack
    \/ ForwardBegin
    \/ ForwardStep
    \/ BackwardBegin
    \/ BackwardStep
    \/ CallIncrement
    \/ CallDecrement
    \/ CallAdvance

SpecFixed == InitFixed /\ [][NextFixed]_vars

\* ------------------------------------------------- what the claims speak of
\* The index k steps backward from index i in the circular space of cap slots
StepsBack(i, k, cap) == IF i >= k THEN i - k ELSE cap - (k - i)

\* The value in slot index; outside the block nothing is known of it
ValueAt(b, index) ==
    IF index >= 0 /\ index < Len(b.mem) THEN b.mem[index + 1] ELSE Junk

\* The physical indices of the elements, front (head) to back (tail)
FrontToBackIndices(b) ==
    [k \in 1 .. b.elementsInside |-> StepsBack(b.head, k - 1, b.capacity)]

\* The element values, front to back
Contents(b) ==
    [k \in 1 .. b.elementsInside |-> ValueAt(b, FrontToBackIndices(b)[k])]

\* The occupied region wraps past the end of the block
Wrapped(b) == b.elementsInside > 0 /\ GetTailIndex(b) > b.head

\* The occupied arc as a set, and tail to head as a sequence
ArcSet(b) == {FrontToBackIndices(b)[k] : k \in 1 .. b.elementsInside}
TailToHeadIndices(b) ==
    [k \in 1 .. b.elementsInside |->
        FrontToBackIndices(b)[b.elementsInside + 1 - k]]

\* q is an initial part of r
IsPrefix(q, r) == Len(q) <= Len(r) /\ q = SubSeq(r, 1, Len(q))

\* The mutating calls
PushOps == {"PushBack", "PushFront", "EmplaceBack", "EmplaceFront"}

\* All but the last element of a sequence
Front(q) == SubSeq(q, 1, Len(q) - 1)

\* ---------------------------------------------------------------------- C1
\* C1: capacity invariant.  After the constructor and after every call of
\* PushBack, PushFront, EmplaceBack, EmplaceFront, PopFront, PopBack, Clear
\* and Resize (accepted or rejected), 0 <= elementsInside <= capacity.
C1_CapacityInvariant ==
    /\ 0 <= rb.elementsInside
    /\ rb.elementsInside <= rb.capacity

\* C1 witness: a Resize has shrunk a non-empty buffer to exactly its size.
C1_Witness ==
    /\ op = "Resize" /\ ret = 1 /\ alive
    /\ rb.elementsInside = rb.capacity
    /\ rb.capacity = 2

\* ---------------------------------------------------------------------- C2
\* C2: deque semantics at fixed capacity.  With S the front-to-back sequence
\* of element values: PushFront(v) on a buffer that is not full yields
\* <<v>> \o S and PushBack(v) yields S \o <<v>>, both returning a slot index;
\* on a full buffer they leave S alone.  PopFront returns the first element
\* of S and removes it, PopBack the last; on an empty buffer both leave S
\* empty.  size() is the length of S after every call.
C2_Step ==
    LET S == Contents(rb)
        T == Contents(rb')
        full == Len(S) = rb.capacity
    IN  /\ alive'
        /\ rb'.capacity = rb.capacity
        /\ rb'.elementsInside = Len(T)
        /\ op' = "PushFront" =>
              IF full THEN T = S /\ ret' = InvalidIndex
              ELSE T = <<arg'>> \o S /\ ret' < rb.capacity
        /\ op' = "PushBack" =>
              IF full THEN T = S /\ ret' = InvalidIndex
              ELSE T = Append(S, arg') /\ ret' < rb.capacity
        /\ op' = "PopFront" =>
              IF S = << >> THEN T = << >>
              ELSE ret' = Head(S) /\ T = Tail(S)
        /\ op' = "PopBack" =>
              IF S = << >> THEN T = << >>
              ELSE ret' = S[Len(S)] /\ T = Front(S)

C2_DequeSemantics == [][C2_Step]_vars

\* C2 witness: PopFront has taken the element of slot 0 off a wrapped region,
\* stepping head around to the last slot, and elements remain.
C2_Witness ==
    /\ op = "PopFront" /\ ret \in Values
    /\ rb.elementsInside >= 2
    /\ rb.head = rb.capacity - 1

\* ---------------------------------------------------------------------- C3
\* C3: occupancy arc.  After any sequence of pushes and pops at fixed
\* capacity, the indices i in 0 .. capacity-1 with IsIndexValid(i) are
\* exactly the arc tail .. head (mod capacity), and there are elementsInside
\* of them.
C3_OccupancyArc ==
    LET valid == {i \in 0 .. rb.capacity - 1 : IsIndexValid(rb, i)}
    IN  /\ valid = ArcSet(rb)
        /\ Cardinality(valid) = rb.elementsInside

\* ---------------------------------------------------------------------- C4
\* C4: Resize preserves order and contents.  A Resize that returns true leaves
\* the front-to-back sequence of element values as it was before the call,
\* whatever the layout, the element size and the new capacity (>= the size).
C4_Step ==
    (op' = "Resize" /\ ret' = 1 /\ alive') => Contents(rb') = Contents(rb)

C4_ResizePreservesContents == [][C4_Step]_vars

\* ---------------------------------------------------------------------- C5
\* C5: Resize rejection.  Resize(0), Resize(InvalidIndex) and Resize(n) with
\* n < elementsInside return false and leave capacity, head, elementsInside,
\* the block and its contents as they were.
C5_Step ==
    (/\ op' = "Resize"
     /\ (arg' = 0 \/ arg' = InvalidIndex \/ arg' < rb.elementsInside))
    => (ret' = 0 /\ alive' /\ rb' = rb)

C5_ResizeRejection == [][C5_Step]_vars

\* C5 witness: a Resize to a capacity >= 1 below the number of elements was
\* rejected.
C5_Witness ==
    /\ op = "Resize" /\ ret = 0
    /\ arg >= 1 /\ arg < rb.elementsInside

\* ---------------------------------------------------------------------- C6
\* C6: full-buffer rejection.  When elementsInside = capacity (capacity 0
\* included) the four push/emplace calls return InvalidIndex and change
\* nothing; when elementsInside < capacity they return an index < capacity
\* and elementsInside grows by exactly 1.
C6_Step ==
    op' \in PushOps =>
        IF rb.elementsInside = rb.capacity
        THEN ret' = InvalidIndex /\ rb' = rb /\ alive'
        ELSE /\ alive'
             /\ ret' >= 0 /\ ret' < rb.capacity
             /\ rb'.elementsInside = rb.elementsInside + 1

C6_FullBufferRejection == [][C6_Step]_vars

\* ---------------------------------------------------------------------- C7
\* C7: empty-buffer access.  With elementsInside = 0, PopFront and PopBack
\* leave head (InvalidIndex), elementsInside (0) and capacity as they were and
\* PeekFront and PeekBack return end() (Index InvalidIndex, Position End).
\* With elementsInside > 0, PeekFront returns an InRange iterator at head and
\* PeekBack one at the tail (elementsInside - 1 steps backward from head),
\* and neither changes the buffer.
C7_Step ==
    LET empty == rb.elementsInside = 0
        tail == StepsBack(rb.head, rb.elementsInside - 1, rb.capacity)
    IN  /\ (op' \in {"PopFront", "PopBack"} /\ empty) =>
              /\ rb' = rb
              /\ rb'.head = InvalidIndex
              /\ rb'.elementsInside = 0
        /\ op' = "PeekFront" =>
              /\ rb' = rb
              /\ it' = IF empty THEN Iter(InvalidIndex, PosEnd)
                       ELSE Iter(rb.head, PosInRange)
        /\ op' = "PeekBack" =>
              /\ rb' = rb
              /\ it' = IF empty THEN Iter(InvalidIndex, PosEnd)
                       ELSE Iter(tail, PosInRange)

C7_EmptyAccess == [][C7_Step]_vars

\* C7 witness: PeekBack on a wrapped region returned the tail slot.
C7_Witness ==
    /\ op = "PeekBack"
    /\ Wrapped(rb)
    /\ it.Position = PosInRange
    /\ it.Index > rb.head

\* ---------------------------------------------------------------------- C8
\* C8: forward traversal.  The loop from begin() by ++ until the iterator is
\* at End visits the occupied indices in tail-to-head order, each once: what
\* it has visited is always an initial part of tail .. head, and all of it
\* when the iterator is at End.
C8_ForwardTraversal ==
    op \in {"begin", "++"} =>
        /\ IsPrefix(visited, TailToHeadIndices(rb))
        /\ it = end(rb) => visited = TailToHeadIndices(rb)

\* ---------------------------------------------------------------------- C9
\* C9: backward traversal.  The loop from end() by -- until the iterator is
\* at Begin visits the occupied indices in head-to-tail order, each once; the
\* first -- lands InRange at head.
C9_BackwardTraversal ==
    op \in {"end", "--"} =>
        /\ IsPrefix(visited, FrontToBackIndices(rb))
        /\ it.Position = PosBegin => visited = FrontToBackIndices(rb)
        /\ (Len(visited) = 1 /\ it.Position = PosInRange) =>
              it.Index = rb.head

\* --------------------------------------------------------------------- C10
\* C10: LookAtIndex(index) returns a non-null pointer exactly when index lies
\* on the occupied arc tail .. head; for any other index (outside the arc,
\* >= capacity, InvalidIndex, or any index of an empty buffer) it returns
\* nullptr.
C10_LookAtIndex ==
    op = "LookAtIndex" => (ret # NullPtr <=> arg \in ArcSet(rb))

\* --------------------------------------------------------------------- C11
\* C11: derived tail.  With capacity >= 1, 0 <= head < capacity and
\* 1 <= elementsInside <= capacity, GetTailIndex() is the index
\* elementsInside - 1 steps backward from head in the circular index space,
\* (head - (elementsInside - 1)) mod capacity, which is head itself for one
\* element; with elementsInside = 0 or capacity = 0 it is InvalidIndex.
C11_DerivedTail ==
    /\ (/\ rb.capacity >= 1
        /\ 0 <= rb.head /\ rb.head < rb.capacity
        /\ 1 <= rb.elementsInside /\ rb.elementsInside <= rb.capacity)
       => /\ GetTailIndex(rb) =
                (rb.head - (rb.elementsInside - 1) + rb.capacity) % rb.capacity
          /\ rb.elementsInside = 1 => GetTailIndex(rb) = rb.head
    /\ (rb.elementsInside = 0 \/ rb.capacity = 0)
       => GetTailIndex(rb) = InvalidIndex

\* C11 witness: a wrapped region of at least two elements whose tail is the
\* last slot of the block.
C11_Witness ==
    /\ rb.elementsInside >= 2
    /\ rb.head < rb.elementsInside - 1
    /\ rb.head < rb.capacity
    /\ GetTailIndex(rb) = rb.capacity - 1

\* --------------------------------------------------------------------- C12
\* C12: empty sentinel.  After the constructor and after every push, emplace,
\* pop, Clear and Resize, head = InvalidIndex exactly when elementsInside = 0.
C12_EmptySentinel ==
    (rb.head = InvalidIndex) <=> (rb.elementsInside = 0)

\* C12 witness: Clear has emptied a buffer that had held elements.
C12_Witness ==
    /\ op = "Clear"
    /\ rb.elementsInside = 0
    /\ \E p \in 1 .. Len(rb.mem) : rb.mem[p] # Junk

\* --------------------------------------------------------------------- C13
\* C13: Resize linearization.  After a Resize that returns true the region is
\* not wrapped (tail <= head), capacity is the capacity asked for and
\* elementsInside is unchanged; if the region was wrapped before the call,
\* head = elementsInside - 1 and the tail is slot 0 afterwards.
C13_Step ==
    (op' = "Resize" /\ ret' = 1 /\ alive') =>
        /\ ~ (GetTailIndex(rb') > rb'.head)
        /\ rb'.capacity = arg'
        /\ rb'.elementsInside = rb.elementsInside
        /\ Wrapped(rb) =>
              /\ rb'.head = rb.elementsInside - 1
              /\ GetTailIndex(rb') = 0

C13_ResizeLinearization == [][C13_Step]_vars

\* C13 witness: a Resize has copied a wrapped region of 4-byte elements (all
\* elements arrived whole, which only the two copy loops achieve for more than
\* one element).
C13_Witness ==
    /\ op = "Resize" /\ ret = 1 /\ alive
    /\ sizeofValueT = 4
    /\ rb.elementsInside >= 2
    /\ rb.head = rb.elementsInside - 1
    /\ \A p \in 1 .. rb.elementsInside : rb.mem[p] # Junk

\* --------------------------------------------------------------------- C14
\* C14: allocation failure.  When Allocate returns nullptr, Resize returns
\* false and leaves capacity, head, elementsInside and the contents as they
\* were, and RingBuffer(size_t) leaves the buffer empty with capacity 0.
\* Neither calls Allocate more than once.
C14_Constructed ==
    op = "RingBuffer(size_t)" =>
        /\ Len(allocLog) <= 1
        /\ allocLog = <<"null">> =>
              /\ rb.capacity = 0
              /\ rb.elementsInside = 0
              /\ rb.head = InvalidIndex

C14_Step ==
    op' = "Resize" =>
        /\ Len(allocLog') <= 1
        /\ allocLog' = <<"null">> => (ret' = 0 /\ alive' /\ rb' = rb)

C14_AllocationFailure == [] C14_Constructed /\ [][C14_Step]_vars

\* C14 witness: the allocator failed a Resize of a non-empty buffer.
C14_Witness ==
    /\ op = "Resize" /\ allocLog = <<"null">>
    /\ ret = 0
    /\ rb.elementsInside >= 1

\* --------------------------------------------------------------------- C15
\* C15: copy construction.  Copy-constructing from a buffer of capacity >= 1
\* (the allocation succeeding) gives a buffer of the same capacity, the same
\* element count and the same contents front to back, and leaves the source
\* as it was.
C15_Step ==
    (/\ op' = "RingBuffer(const RingBuffer&)"
     /\ rb.capacity >= 1
     /\ allocLog' = <<"block">>)
    => /\ ret' = 1
       /\ copy'.capacity = rb.capacity
       /\ copy'.elementsInside = rb.elementsInside
       /\ Contents(copy') = Contents(rb)
       /\ rb' = rb

C15_CopyConstruction == [][C15_Step]_vars

\* --------------------------------------------------------------------- C16
\* ++ has just been applied to the iterator begin() returned
IncrementsBegin ==
    /\ op = "begin" /\ it.Position = PosBegin
    /\ op' \in {"++", "operator++"}

\* The slot one step forward from the tail
AfterTail(b) ==
    IF Wrapped(b) THEN (GetTailIndex(b) + 1) % b.capacity
    ELSE GetTailIndex(b) + 1

\* C16 as stated: iterator start.  For a non-empty buffer, operator++ applied
\* once to the iterator begin() returned (position Begin) leaves it in
\* position InRange with its index equal to the buffer's tail index.
C16_Step ==
    (IncrementsBegin /\ rb.elementsInside > 0)
    => /\ it'.Position = PosInRange
       /\ it'.Index = GetTailIndex(rb)

C16_IteratorStart == [][C16_Step]_vars

\* C16 amended: the iterator begin() returns for a non-empty buffer already
\* stands at the tail index, in position Begin; operator++ applied once to it
\* leaves it InRange at the slot one step forward from the tail when the
\* buffer holds two elements or more and that slot is inside the block, and
\* at End with the invalid index otherwise.
C16_AmendedStep ==
    (IncrementsBegin /\ rb.elementsInside > 0)
    => /\ it.Index = GetTailIndex(rb)
       /\ IF rb.elementsInside >= 2 /\ AfterTail(rb) < rb.capacity
          THEN it' = Iter(AfterTail(rb), PosInRange)
          ELSE it' = end(rb)

C16_IteratorStartAmended == [][C16_AmendedStep]_vars

\* C16 witness: the loop's first ++ has moved the iterator from the tail of
\* a wrapped buffer to the slot after it.
C16_Witness ==
    /\ op = "++" /\ Len(visited) = 1
    /\ Wrapped(rb)
    /\ visited[1] = GetTailIndex(rb)
    /\ it = Iter(AfterTail(rb), PosInRange)
    /\ it.Index # GetTailIndex(rb)

\* --------------------------------------------------------------------- C17
\* C17: iterator forward exhaustion.  operator++ applied to an iterator in
\* position End leaves it in position Invalid.
C17_Step ==
    (it.Position = PosEnd /\ op' = "operator++")
    => it'.Position = PosInvalid

C17_ForwardExhaustion == [][C17_Step]_vars

\* --------------------------------------------------------------------- C18
\* C18: iterator backward exhaustion.  operator-- applied to an iterator in
\* position Begin leaves it in position Invalid.
C18_Step ==
    (it.Position = PosBegin /\ op' = "operator--")
    => it'.Position = PosInvalid

C18_BackwardExhaustion == [][C18_Step]_vars

\* --------------------------------------------------------------------- C19
\* C19: PopFront head step.  With more than one element PopFront moves head
\* one position backward in the circular index space (capacity - 1 from 0,
\* head - 1 otherwise, which is what head - 1 % capacity yields), decreases
\* the count by 1 and leaves the derived tail index as it was; with one
\* element it sets head to the invalid index and the count to 0.
C19_Step ==
    op' = "PopFront" =>
        /\ rb.elementsInside > 1 =>
              /\ rb'.head = IF rb.head = 0 THEN rb.capacity - 1
                            ELSE rb.head - 1
              /\ rb'.elementsInside = rb.elementsInside - 1
              /\ GetTailIndex(rb') = GetTailIndex(rb)
        /\ rb.elementsInside = 1 =>
              /\ rb'.head = InvalidIndex
              /\ rb'.elementsInside = 0

C19_PopFrontHeadStep == [][C19_Step]_vars

\* C19 witness: PopFront has stepped head from slot 0 around to the last
\* slot, where the one element left is both front and back.
C19_Witness ==
    /\ op = "PopFront" /\ ret \in Values
    /\ rb.capacity >= 2
    /\ rb.elementsInside = 1
    /\ rb.head = rb.capacity - 1
    /\ GetTailIndex(rb) = rb.head

\* --------------------------------------------------------------------- C20
\* C20: PushBack slot selection.  On an empty buffer of capacity >= 1
\* PushBack writes slot 0 and sets head to 0; on a buffer neither empty nor
\* full it writes the slot one step backward from the tail
\* ((tail - 1) mod capacity), leaves head as it was, and afterwards
\* GetTailIndex() equals the index returned.
C20_Step ==
    op' = "PushBack" =>
        /\ (rb.elementsInside = 0 /\ rb.capacity >= 1) =>
              /\ alive'
              /\ ret' = 0
              /\ rb'.head = 0
              /\ ValueAt(rb', 0) = arg'
        /\ (rb.elementsInside >= 1 /\ rb.elementsInside < rb.capacity) =>
              /\ alive'
              /\ ret' = (GetTailIndex(rb) - 1 + rb.capacity) % rb.capacity
              /\ ValueAt(rb', ret') = arg'
              /\ rb'.head = rb.head
              /\ GetTailIndex(rb') = ret'

C20_PushBackSlot == [][C20_Step]_vars

\* C20 witness: PushBack has written the last slot of the block, one step
\* backward from a tail at slot 0.
C20_Witness ==
    /\ op = "PushBack" /\ alive
    /\ rb.elementsInside >= 2
    /\ ret = rb.capacity - 1
    /\ GetTailIndex(rb) = ret
    /\ ValueAt(rb, ret) = arg
    /\ rb.head < ret

\* --------------------------------------------------------------------- C21
\* C21: PushFront slot selection.  On an empty buffer of capacity >= 1
\* PushFront writes slot 0; on a buffer neither empty nor full it writes the
\* slot one step forward from head ((head + 1) mod capacity).  In both cases
\* head becomes the index returned and the count goes up by 1, and on a
\* non-empty buffer the derived tail index stays as it was.
C21_Step ==
    op' = "PushFront" =>
        /\ (rb.elementsInside = 0 /\ rb.capacity >= 1) =>
              /\ alive'
              /\ ret' = 0
              /\ ValueAt(rb', 0) = arg'
              /\ rb'.head = ret'
              /\ rb'.elementsInside = 1
        /\ (rb.elementsInside >= 1 /\ rb.elementsInside < rb.capacity) =>
              /\ alive'
              /\ ret' = (rb.head + 1) % rb.capacity
              /\ ValueAt(rb', ret') = arg'
              /\ rb'.head = ret'
              /\ rb'.elementsInside = rb.elementsInside + 1
              /\ GetTailIndex(rb') = GetTailIndex(rb)

C21_PushFrontSlot == [][C21_Step]_vars

\* --------------------------------------------------------------------- C22
\* C22: head in range.  After every call in any sequence of push, emplace,
\* pop, Clear and Resize calls (accepted or rejected, to a smaller capacity
\* too), whenever the buffer holds an element the head index and the derived
\* tail index both lie in 0 .. capacity - 1.
C22_HeadInRange ==
    rb.elementsInside > 0 =>
        /\ 0 <= rb.head /\ rb.head < rb.capacity
        /\ 0 <= GetTailIndex(rb) /\ GetTailIndex(rb) < rb.capacity

\* --------------------------------------------------------------------- C23
\* C23: traversal terminates.  In every reachable state, a full buffer whose
\* region wraps included, the loop for (it = begin(); it != end(); ++it)
\* reaches end() after exactly elementsInside increments: it never makes
\* more, and it is at end() once it has made that many.
C23_TraversalTerminates ==
    op \in {"begin", "++"} =>
        /\ Len(visited) <= rb.elementsInside
        /\ Len(visited) = rb.elementsInside => it = end(rb)
        /\ it = end(rb) => Len(visited) = rb.elementsInside

\* --------------------------------------------------------------------- C24
\* ++ applied n times, stopping at End
RECURSIVE IncTimes(_, _, _)
IncTimes(b, i, n) ==
    IF n = 0 \/ i = end(b) THEN i ELSE IncTimes(b, IncIter(b, i), n - 1)

\* Where an iterator at the occupied slot index is n steps toward head:
\* InRange at that occupied slot, or End when fewer than n follow.
Landing(b, index, n) ==
    LET arc == TailToHeadIndices(b)
        k == CHOOSE j \in 1 .. Len(arc) : arc[j] = index
    IN  IF k + n <= Len(arc) THEN Iter(arc[k + n], PosInRange) ELSE end(b)

\* C24: offset advance equals repeated steps.  For a non-empty buffer, an
\* InRange iterator on an occupied index and an offset n >= 1, it += n leaves
\* the iterator where n applications of ++ (stopping at End) leave it: on
\* the occupied index n steps toward head when there is one, and at End with
\* the invalid index when fewer than n occupied slots follow.
C24_Step ==
    (/\ op' = "operator+=" /\ arg' >= 1
     /\ rb.elementsInside > 0
     /\ it.Position = PosInRange
     /\ it.Index \in ArcSet(rb))
    => /\ it' = IncTimes(rb, it, arg')
       /\ it' = Landing(rb, it.Index, arg')

C24_OffsetAdvance == [][C24_Step]_vars

\* --------------------------------------------------------------------- C25
\* C25: copy assignment replaces contents.  After a = b, whatever a held
\* before and for any b of capacity >= 1 (the allocation succeeding), a has
\* the capacity, the element count and the front-to-back contents of b, and
\* b is as it was.
C25_Step ==
    (/\ op' = "operator="
     /\ other'.capacity >= 1
     /\ allocLog' # <<"null">>)
    => /\ ret' = 1
       /\ rb'.capacity = other'.capacity
       /\ rb'.elementsInside = other'.elementsInside
       /\ Contents(rb') = Contents(other')
       /\ other' \in Others

C25_CopyAssignment == [][C25_Step]_vars

=============================================================================
